---- MODULE Spec2Model ----
(***************************************************************************)
(* Entitlement and usage accounting of the astrology chat backend.         *)
(*                                                                         *)
(* One user.  The persisted state is the user's row of user_subscriptions  *)
(* and the user's row of user_usage.  The processes are the WebSocket chat *)
(* connections of the user (api/websocket_router.py) and the Stripe        *)
(* webhook endpoint (api/webhook_router.py).  The server is one uvicorn    *)
(* process (main.py:81) and every database call is a blocking call, so a   *)
(* handler runs without interruption between two awaits: one action of    *)
(* the model is one such stretch of a handler.                             *)
(*                                                                         *)
(* Time is counted in hours since the start of the behaviour.              *)
(***************************************************************************)
EXTENDS Integers, Sequences, FiniteSets, TLC

(***************************************************************************)
(* Bounds of the model.                                                    *)
(***************************************************************************)
MaxTime == 36
MaxDeliveries == 2
PackCredits == 2
MaxCount == 3
MaxCalls == 3

(***************************************************************************)
(* Program constants.                                                      *)
(***************************************************************************)
FREE_MESSAGE_LIMIT == 1
WINDOW_HOURS == 24
ADVERTISED_WINDOW_HOURS == 48
DAY_PASS_HOURS == 24
WEEK_PASS_HOURS == 168
LIFETIME_EXPIRY == 1000

None == -1
Conns == {1, 2}
EventIds == {1, 2}
PassProducts == {"day_pass", "week_pass"}
Products == {"credit_pack", "lifetime"} \cup PassProducts
UpgradeProducts == {"credit_pack"} \cup PassProducts
ChatProducts == {"credit_pack", "day_pass", "lifetime"}
NoRet == None
PlanTypes == {"free", "credits", "unlimited", "lifetime"}
\* a checkout event as the handler sees it: a product, no product
\* identifier, or an identifier that is no product
CheckoutProducts == Products \cup {"missing", "unknown"}
CheckoutLabels == CheckoutProducts \cup {"no_user"}
\* what can fail while a checkout event is handled
Failures == {"none", "update", "reset"}
\* the current_period_end the payment provider reports, when it reports one
StripePeriodEnds == {30}
UpdateFailures == {"none", "update"}
\* the checkout events: a failure is drawn only where a step can fail
CheckoutEvents ==
    {ev \in [user_id : BOOLEAN, product : CheckoutProducts, failure : Failures] :
        (ev.user_id /\ ev.product \in Products) \/ ev.failure = "none"}
BillingConns == {1}
\* the clients of the storage service that are in a database function at
\* the same time
Clients == {1, 2}
SubscriptionFunctions == {"get_or_create_user_subscription", "add_message_credits",
                          "deduct_message_credit", "extend_unlimited_until"}
DbFunctions == SubscriptionFunctions \cup {"get_user_usage"}
TickSteps == {12, 24}
FineTickSteps == {1, 24}

CREDIT_AMOUNTS == [p \in {"credit_pack"} |-> PackCredits]
PASS_DURATIONS == [p \in PassProducts |->
                     IF p = "day_pass" THEN DAY_PASS_HOURS ELSE WEEK_PASS_HOURS]

VARIABLES
    now,         \* the clock, datetime.now(timezone.utc), in hours
    sub,         \* the user's user_subscriptions row
    usage,       \* the user's user_usage row
    pc,          \* per connection: the await the handler is suspended at
    plan_type,   \* per connection: the local plan_type of websocket_chat
    in_window,   \* per connection: its message passed the gate in the window that is still current
    events,      \* per Stripe event id: its product and how often it was delivered
    last_pass,   \* the last time-boxed pass applied: when, its duration, unlimited_until before it
    ret,         \* the value returned by the last call of get_remaining_messages
    ret_exceeded,     \* the values returned by the calls of is_message_limit_exceeded
    ret_until_reset,  \* the value returned by the last call of get_messages_until_reset
    paid_throttled,   \* a purchase was applied while the user was refused, and no access check ran since
    db,          \* the two tables as the storage service holds them: the rows of the user
    calls,       \* per client of the storage service: the database function it is in and the request it makes next
    done,        \* what the database functions that returned have done
    response,    \* the answer of stripe_webhook to the last event it handled, and the step of the handler that failed
    before       \* per connection: the usage row the access check of the message in flight found, and when

vars == <<now, sub, usage, pc, plan_type, in_window, events, last_pass, ret,
          ret_exceeded, ret_until_reset, paid_throttled, db, calls, done, response, before>>

NoSub == [exists |-> FALSE, message_credits |-> 0, unlimited_until |-> None, status |-> "free",
          is_active |-> TRUE, current_period_end |-> None]
NoUsage == [exists |-> FALSE, message_count |-> 0, last_reset_at |-> None]
NoEvent == [product |-> "none", n |-> 0]
NoPass == [at |-> None, d |-> 0, before |-> None]
NoRows == [subs |-> <<>>, usages |-> <<>>]
NoCall == [fn |-> "none", step |-> "idle", current |-> NoSub, arg |-> 0]
NoResponse == [status |-> 0, failure |-> "none"]
NoBefore == [sent |-> FALSE, expired |-> FALSE, usage |-> NoUsage, at |-> None]
NoneDone == [begun |-> 0, sub_returned |-> FALSE, usage_returned |-> FALSE,
             adds |-> 0, deducts |-> 0, pass_hours |-> 0]

Max(a, b) == IF a >= b THEN a ELSE b

(***************************************************************************)
(* services/usage_tracker.py                                               *)
(***************************************************************************)
get_plan_message_limit(plan) == IF plan = "free" THEN FREE_MESSAGE_LIMIT ELSE None

_should_reset_usage_strict(last_reset_at, t) ==
    IF last_reset_at = None THEN TRUE
    ELSE t - last_reset_at > WINDOW_HOURS

_should_reset_usage(last_reset_at, t) ==
    IF last_reset_at = None THEN TRUE
    ELSE t - last_reset_at >= WINDOW_HOURS

should_reset_daily_usage(u, t) == _should_reset_usage(u.last_reset_at, t)

is_message_limit_exceeded_no_window(u, plan, t) ==
    LET limit == get_plan_message_limit(plan) IN
    IF limit = None THEN FALSE
    ELSE u.message_count >= limit

is_message_limit_exceeded(u, plan, t) ==
    LET limit == get_plan_message_limit(plan) IN
    IF limit = None THEN FALSE
    ELSE IF _should_reset_usage(u.last_reset_at, t) THEN FALSE
    ELSE u.message_count >= limit

\* the timedelta returned, in hours
get_messages_until_reset(u, t) ==
    IF u.last_reset_at = None THEN 0
    ELSE LET reset_time == u.last_reset_at + WINDOW_HOURS
             time_until_reset == reset_time - t
         IN IF time_until_reset <= 0 THEN 0 ELSE time_until_reset

get_remaining_messages(u, plan, t) ==
    LET limit == get_plan_message_limit(plan) IN
    IF limit = None THEN 999999
    ELSE IF _should_reset_usage(u.last_reset_at, t) THEN limit
    ELSE Max(0, limit - u.message_count)

\* The resolver and the gate of the credits/pass plans (4.2 and 4.3).
get_effective_plan(s, t) ==
    IF s.unlimited_until # None /\ s.unlimited_until > t
    THEN (IF s.unlimited_until >= LIFETIME_EXPIRY THEN "lifetime" ELSE "unlimited")
    ELSE IF s.message_credits > 0 THEN "credits"
    ELSE "free"

can_send_message_paid_only(s, u, t) == get_effective_plan(s, t) # "free"

can_send_message(s, u, t) ==
    IF get_effective_plan(s, t) # "free" THEN TRUE
    ELSE get_remaining_messages(u, "free", t) > 0

(***************************************************************************)
(* services/database.py: each operator maps the row before the call to     *)
(* the row after it.                                                       *)
(***************************************************************************)
get_or_create_user_subscription(s) ==
    IF s.exists THEN s
    ELSE [exists |-> TRUE, message_credits |-> 0, unlimited_until |-> None, status |-> "free",
          is_active |-> TRUE, current_period_end |-> None]

\* models/subscription.py, SubscriptionUpdate: a field left out is the
\* empty set (status, is_active) or None
Unset == {}
Some(x) == {x}
The(S) == CHOOSE x \in S : TRUE

SubscriptionUpdate(status, is_active, current_period_end) ==
    [status |-> status, is_active |-> is_active, current_period_end |-> current_period_end,
     message_credits |-> None, unlimited_until |-> None]

update_user_subscription_clearing(s, update_data) ==
    [s EXCEPT !.status = IF update_data.status # Unset THEN The(update_data.status) ELSE @,
              !.is_active = IF update_data.is_active # Unset THEN The(update_data.is_active) ELSE @,
              !.current_period_end = update_data.current_period_end,
              !.message_credits = IF update_data.message_credits # None
                                  THEN update_data.message_credits ELSE @,
              !.unlimited_until = update_data.unlimited_until]

\* lines 1193-1199: current_period_end is written whether it is set or None
update_user_subscription(s, update_data) ==
    [s EXCEPT !.status = IF update_data.status # Unset THEN The(update_data.status) ELSE @,
              !.is_active = IF update_data.is_active # Unset THEN The(update_data.is_active) ELSE @,
              !.current_period_end = update_data.current_period_end,
              !.message_credits = IF update_data.message_credits # None
                                  THEN update_data.message_credits ELSE @,
              !.unlimited_until = IF update_data.unlimited_until # None
                                  THEN update_data.unlimited_until ELSE @]

add_message_credits_overwrite(s, amount) ==
    LET current == get_or_create_user_subscription(s) IN
    [current EXCEPT !.message_credits = amount, !.status = "credits"]

add_message_credits_status_only(s, amount) ==
    LET current == get_or_create_user_subscription(s) IN
    [current EXCEPT !.status = "credits"]

add_message_credits(s, amount) ==
    LET current == get_or_create_user_subscription(s)
        new_credits == current.message_credits + amount
    IN [current EXCEPT !.message_credits = new_credits,
                       !.status = IF new_credits > 0 THEN "credits" ELSE current.status]

deduct_message_credit_unguarded(s) ==
    LET current == get_or_create_user_subscription(s) IN
    [current EXCEPT !.message_credits = current.message_credits - 1]

deduct_message_credit(s) ==
    LET current == get_or_create_user_subscription(s) IN
    IF current.message_credits <= 0 THEN current
    ELSE [current EXCEPT !.message_credits = current.message_credits - 1]

set_unlimited_until_if_unset(s, until_dt) ==
    IF s.unlimited_until # None THEN s
    ELSE [s EXCEPT !.unlimited_until = until_dt,
                   !.status = IF until_dt >= LIFETIME_EXPIRY THEN "lifetime" ELSE "unlimited"]

set_unlimited_until(s, until_dt) ==
    [s EXCEPT !.unlimited_until = until_dt,
              !.status = IF until_dt >= LIFETIME_EXPIRY THEN "lifetime" ELSE "unlimited"]

extend_unlimited_until_from_now(s, duration, t) ==
    set_unlimited_until(get_or_create_user_subscription(s), t + duration)

extend_unlimited_until(s, duration, t) ==
    LET current == get_or_create_user_subscription(s)
        base == IF current.unlimited_until # None /\ current.unlimited_until > t
                THEN current.unlimited_until ELSE t
    IN set_unlimited_until(current, base + duration)

create_user_usage(t) == [exists |-> TRUE, message_count |-> 0, last_reset_at |-> t]

get_user_usage(u, t) == IF u.exists THEN u ELSE create_user_usage(t)

increment_user_message_count(u, t) ==
    LET current_usage == get_user_usage(u, t) IN
    [current_usage EXCEPT !.message_count = current_usage.message_count + 1]

reset_user_usage_count_only(u, t) == [u EXCEPT !.message_count = 0]

reset_user_usage(u, t) == [u EXCEPT !.message_count = 0, !.last_reset_at = t]

\* api/webhook_router.py
_reset_user_message_count(u, t) == reset_user_usage(get_user_usage(u, t), t)


(***************************************************************************)
(* The billing event applier (4.4): the effect of one purchase-completed   *)
(* event on the subscription row, by product.                              *)
(***************************************************************************)
apply_purchase_event(s, product, t) ==
    LET row == get_or_create_user_subscription(s) IN
    IF product = "credit_pack" THEN add_message_credits(row, CREDIT_AMOUNTS[product])
    ELSE IF product \in PassProducts THEN extend_unlimited_until(row, PASS_DURATIONS[product], t)
    ELSE set_unlimited_until(row, LIFETIME_EXPIRY)

(***************************************************************************)
(* api/webhook_router.py: each handler maps the rows before the event to   *)
(* the rows after it.  The early returns and the order of the steps are    *)
(* the handler's; the effect of a purchase is apply_purchase_event.        *)
(***************************************************************************)
Rows(s, u) == [sub |-> s, usage |-> u]

_handle_checkout_session_completed_create_first(s, u, user_id, product, failure, t) ==
    LET row == get_or_create_user_subscription(s) IN
    IF ~user_id \/ product \in {"missing", "unknown"} THEN Rows(row, u)
    ELSE IF failure = "update" THEN Rows(row, u)
    ELSE Rows(apply_purchase_event(row, product, t),
              IF failure = "reset" THEN get_user_usage(u, t)
              ELSE _reset_user_message_count(u, t))

\* user_id: the event carries the user identifier; product "missing": no
\* product identifier could be determined; product "unknown": the
\* identifier is not in the lookup; failure "update": the write of the
\* subscription raises; failure "reset": reset_user_usage raises
_handle_checkout_session_completed(s, u, user_id, product, failure, t) ==
    IF ~user_id THEN Rows(s, u)
    ELSE IF product = "missing" THEN Rows(s, u)
    ELSE IF product = "unknown" THEN Rows(s, u)
    ELSE LET row == get_or_create_user_subscription(s) IN
         IF failure = "update" THEN Rows(row, u)
         ELSE Rows(apply_purchase_event(row, product, t),
                   IF failure = "reset" THEN get_user_usage(u, t)
                   ELSE _reset_user_message_count(u, t))

\* subscription_id: the invoice names a subscription; found: the lookup by
\* that identifier returns the user's row; stripe_ok: the payment provider
\* answers the lookup; plan: the plan the answer resolves to
_handle_invoice_paid(s, u, subscription_id, found, stripe_ok, plan, t) ==
    IF ~subscription_id THEN Rows(s, u)
    ELSE IF ~found THEN Rows(s, u)
    ELSE IF stripe_ok
         THEN Rows(update_user_subscription(s, SubscriptionUpdate(Some(plan), Some(TRUE), None)),
                   _reset_user_message_count(u, t))
         ELSE Rows(update_user_subscription(s, SubscriptionUpdate(Unset, Some(TRUE), None)),
                   _reset_user_message_count(u, t))

_handle_invoice_payment_failed_from_stripe(s, subscription_id, found, stripe_period_end) ==
    IF ~subscription_id THEN s
    ELSE IF ~found THEN s
    ELSE update_user_subscription(s, SubscriptionUpdate(Unset, Some(FALSE), stripe_period_end))

\* stripe_period_end: the current_period_end the payment provider reports,
\* None when the lookup fails or reports none
_handle_invoice_payment_failed(s, subscription_id, found, stripe_period_end) ==
    IF ~subscription_id THEN s
    ELSE IF ~found THEN s
    ELSE LET current_period_end == IF s.current_period_end # None
                                   THEN s.current_period_end ELSE stripe_period_end
         IN update_user_subscription(s, SubscriptionUpdate(Unset, Some(FALSE), current_period_end))

\* found: the lookup by the subscription identifier (or the user_id of the
\* metadata) finds the user's row; plan: the plan of the price; cancel_at:
\* the end of the period when the cancellation is scheduled, else None;
\* failure "update": the write of the subscription raises
_handle_customer_subscription_updated(s, u, found, plan, cancel_at, failure, t) ==
    IF ~found THEN Rows(s, u)
    ELSE LET plan_changed == plan # s.status
             became_active == ~s.is_active
             reset == IF plan_changed \/ became_active THEN _reset_user_message_count(u, t) ELSE u
         IN IF failure = "update" THEN Rows(s, reset)
            ELSE Rows(update_user_subscription(s, SubscriptionUpdate(Some(plan), Some(TRUE), cancel_at)),
                      reset)

\* the except clause that ends each handler: the handler of
\* customer.subscription.updated raises again what a step raised (lines
\* 410-415), the others log it and return (lines 224-226, 301-303, 476-478,
\* 519-521, and 67-69 for the usage reset)
reraised(event_type, failure) ==
    failure # "none" /\ event_type = "customer.subscription.updated"

\* stripe_webhook, lines 141-149: the answer to the payment provider
stripe_webhook(handler_raised) == IF handler_raised THEN 500 ELSE 200

(***************************************************************************)
(* api/websocket_router.py, websocket_chat: the pieces of the message loop *)
(***************************************************************************)
\* line 186: the plan the loop works with for this message
gate_plan_stored_status(subscription, t) == subscription.status

gate_plan_never_expiring(subscription, t) ==
    IF subscription.unlimited_until # None
    THEN (IF subscription.unlimited_until >= LIFETIME_EXPIRY THEN "lifetime" ELSE "unlimited")
    ELSE IF subscription.message_credits > 0 THEN "credits"
    ELSE "free"

gate_plan(subscription, t) == get_effective_plan(subscription, t)

\* lines 196-208 and 321-329: what the loop does after the access check
gate_outcome_unchecked(allowed, too_large) ==
    IF too_large THEN "err_request_too_large" ELSE "running"

gate_outcome(allowed, too_large) ==
    IF ~allowed THEN "err_purchase_required"
    ELSE IF too_large THEN "err_request_too_large"
    ELSE "running"

\* lines 437-448: the charge after a successful response, by the plan
\* resolved at the gate
charge_subscription(plan, s) ==
    IF plan = "credits" THEN deduct_message_credit(s) ELSE s

charge_usage_any_plan(plan, u, t) == increment_user_message_count(u, t)

charge_usage_twice(plan, u, t) ==
    IF plan = "free" THEN increment_user_message_count(increment_user_message_count(u, t), t)
    ELSE u

charge_usage(plan, u, t) ==
    IF plan = "free" THEN increment_user_message_count(u, t) ELSE u

\* lines 184-193: the rows when a storage call of the access check raises;
\* at is the call that raises, and the calls before it have been made
gate_failed(s, u, at, t) ==
    IF at = "subscription" THEN Rows(s, u)
    ELSE IF at = "usage" THEN Rows(get_or_create_user_subscription(s), u)
    ELSE Rows(get_or_create_user_subscription(s), get_user_usage(u, t))

gate_failure_reply_refusal(raised) == "err_purchase_required"

\* lines 210-220 and 477-484: the database functions raise HTTPException,
\* which the access check raises again and the message loop answers;
\* another exception is answered by the access check itself
gate_failure_reply(raised) ==
    IF raised = "HTTPException" THEN "err_unexpected" ELSE "err_subscription_check_failed"

GateFailures == {"subscription", "usage", "reset"}

Replies == {"err_purchase_required", "err_request_too_large", "err_failed", "stream_end",
            "err_unexpected", "err_subscription_check_failed"}

TypeOK ==
    /\ now \in 0..MaxTime
    /\ sub.exists \in BOOLEAN /\ sub.message_credits \in Int
    /\ sub.unlimited_until \in Int /\ sub.status \in PlanTypes
    /\ sub.is_active \in BOOLEAN /\ sub.current_period_end \in {None} \cup StripePeriodEnds
    /\ usage.exists \in BOOLEAN /\ usage.message_count \in Int /\ usage.last_reset_at \in Int
    /\ pc \in [Conns -> {"idle", "running"} \cup Replies]
    /\ plan_type \in [Conns -> PlanTypes]
    /\ in_window \in [Conns -> BOOLEAN]
    /\ \A e \in EventIds : /\ events[e].product \in CheckoutLabels \cup {"none"}
                            /\ events[e].n \in 0..MaxDeliveries
    /\ ret \in Int
    /\ ret_exceeded \subseteq BOOLEAN
    /\ ret_until_reset \in Int
    /\ paid_throttled \in BOOLEAN
    /\ Len(db.subs) \in 0..MaxCalls /\ Len(db.usages) \in 0..MaxCalls
    /\ \A k \in Clients : /\ calls[k].fn \in DbFunctions \cup {"none"}
                          /\ calls[k].step \in {"idle", "select", "insert", "update", "failed"}
    /\ done.begun \in 0..MaxCalls
    /\ response.status \in {0, 200, 500} /\ response.failure \in Failures \cup {"provider"}
    /\ \A c \in Conns : before[c].sent \in BOOLEAN /\ before[c].expired \in BOOLEAN

Init ==
    /\ now = 0
    /\ sub = NoSub
    /\ usage = NoUsage
    /\ pc = [c \in Conns |-> "idle"]
    /\ plan_type = [c \in Conns |-> "free"]
    /\ in_window = [c \in Conns |-> FALSE]
    /\ events = [e \in EventIds |-> NoEvent]
    /\ last_pass = NoPass
    /\ ret = NoRet
    /\ ret_exceeded = {}
    /\ ret_until_reset = NoRet
    /\ paid_throttled = FALSE
    /\ db = NoRows
    /\ calls = [k \in Clients |-> NoCall]
    /\ done = NoneDone
    /\ response = NoResponse
    /\ before = [c \in Conns |-> NoBefore]

\* what the access check of a message found: the row of a running window,
\* or that the window had expired and the time of the check
found_by_gate(fetched, t) ==
    IF should_reset_daily_usage(fetched, t)
    THEN [sent |-> TRUE, expired |-> TRUE, usage |-> NoUsage, at |-> t]
    ELSE [sent |-> TRUE, expired |-> FALSE, usage |-> fetched, at |-> None]

\* the usage rows found by the access checks of the messages in flight,
\* kept while no handler writes the usage row: u is the row after the step
Undisturbed(u) == [d \in Conns |-> IF u = usage THEN before[d] ELSE NoBefore]

\* websocket_chat, lines 169-345: a message is received, the access check
\* runs, and the message is refused, rejected as too large, or handed to
\* the agent.
Gate(c) ==
    /\ pc[c] = "idle"
    /\ LET subscription == get_or_create_user_subscription(sub)
           plan == gate_plan(subscription, now)
           fetched == get_user_usage(usage, now)
           u == IF should_reset_daily_usage(fetched, now)
                THEN reset_user_usage(fetched, now) ELSE fetched
           allowed == can_send_message(subscription, u, now)
       IN /\ sub' = subscription
          /\ usage' = u
          /\ plan_type' = [plan_type EXCEPT ![c] = plan]
          /\ in_window' = [d \in Conns |-> IF d = c THEN allowed
                                          ELSE in_window[d] /\ u.last_reset_at = usage.last_reset_at]
          /\ \E too_large \in BOOLEAN :
                /\ pc' = [pc EXCEPT ![c] = gate_outcome(allowed, too_large)]
                /\ before' = [Undisturbed(u) EXCEPT ![c] =
                                 IF gate_outcome(allowed, too_large) = "running"
                                 THEN found_by_gate(fetched, now)
                                 ELSE NoBefore]
          /\ paid_throttled' = FALSE
    /\ UNCHANGED <<now, events, last_pass, ret, ret_exceeded, ret_until_reset, db, calls, done, response>>

\* lines 349-457: the stream ends, the usage is charged, stream_end is sent
AgentSucceed(c) ==
    /\ pc[c] = "running"
    /\ sub' = charge_subscription(plan_type[c], sub)
    /\ usage' = charge_usage(plan_type[c], usage, now)
    /\ pc' = [pc EXCEPT ![c] = "stream_end"]
    /\ before' = [Undisturbed(usage') EXCEPT ![c] = NoBefore]
    /\ UNCHANGED <<now, plan_type, in_window, events, last_pass, ret, ret_exceeded, ret_until_reset, paid_throttled, db, calls, done, response>>

\* lines 459-465: the agent run raises
AgentFail(c) ==
    /\ pc[c] = "running"
    /\ pc' = [pc EXCEPT ![c] = "err_failed"]
    /\ before' = [before EXCEPT ![c] = NoBefore]
    /\ UNCHANGED <<now, sub, usage, plan_type, in_window, events, last_pass, ret, ret_exceeded, ret_until_reset, paid_throttled, db, calls, done, response>>

\* the send_json of the reply completes and the loop waits for the next
\* message; plan_type and usage are assigned again before they are read
Reply(c) ==
    /\ pc[c] \in Replies
    /\ pc' = [pc EXCEPT ![c] = "idle"]
    /\ plan_type' = [plan_type EXCEPT ![c] = "free"]
    /\ in_window' = [in_window EXCEPT ![c] = FALSE]
    /\ UNCHANGED <<now, sub, usage, events, last_pass, ret, ret_exceeded, ret_until_reset, paid_throttled, db, calls, done, response, before>>

\* stripe_webhook: Stripe delivers purchase event e (again, when it was
\* delivered before) and the handler applies it and resets the usage row.
RECURSIVE SumN(_)
SumN(S) == IF S = {} THEN 0 ELSE LET e == CHOOSE x \in S : TRUE IN events[e].n + SumN(S \ {e})
Delivered == SumN(EventIds)

HandlePurchase(e, product) ==
    /\ Delivered < MaxDeliveries
    /\ events[e].product \in {"none", product}
    /\ events' = [events EXCEPT ![e] = [product |-> product, n |-> events[e].n + 1]]
    /\ sub' = apply_purchase_event(sub, product, now)
    /\ usage' = _reset_user_message_count(usage, now)
    /\ in_window' = [c \in Conns |-> FALSE]
    /\ paid_throttled' = (paid_throttled \/ (product \in UpgradeProducts /\ ~can_send_message(sub, usage, now)))
    /\ before' = Undisturbed(usage')
    /\ UNCHANGED <<now, pc, plan_type, ret, ret_exceeded, ret_until_reset, db, calls, done>>

Deliver(e) ==
    /\ \E product \in ChatProducts : HandlePurchase(e, product)
    /\ UNCHANGED <<last_pass, response>>

Tick(d) ==
    /\ now + d <= MaxTime
    /\ now' = now + d
    /\ UNCHANGED <<sub, usage, pc, plan_type, in_window, events, last_pass, ret, ret_exceeded, ret_until_reset, paid_throttled, db, calls, done, response, before>>

Next ==
    \/ \E c \in Conns : Gate(c)
    \/ \E c \in Conns : AgentSucceed(c)
    \/ \E c \in Conns : AgentFail(c)
    \/ \E c \in Conns : Reply(c)
    \/ \E e \in EventIds : Deliver(e)
    \/ \E d \in TickSteps : Tick(d)

Spec == Init /\ [][Next]_vars

(***************************************************************************)
(* The pass purchases alone, on an hourly clock, with the last pass        *)
(* applied kept as history.                                                *)
(***************************************************************************)
DeliverPass(e) ==
    \E product \in Products \ {"credit_pack"} :
        /\ HandlePurchase(e, product)
        /\ last_pass' = IF product \in PassProducts
                        THEN [at |-> now, d |-> PASS_DURATIONS[product],
                              before |-> sub.unlimited_until]
                        ELSE NoPass
        /\ UNCHANGED response

NextPass ==
    \/ \E e \in EventIds : DeliverPass(e)
    \/ \E d \in FineTickSteps : Tick(d)

SpecPass == Init /\ [][NextPass]_vars

(***************************************************************************)
(* The webhook handlers with their malformed events and failing steps.     *)
(***************************************************************************)
CheckoutLabel(user_id, product) == IF user_id THEN product ELSE "no_user"

Checkout(e, user_id, product, failure) ==
    /\ Delivered < MaxDeliveries
    /\ events[e].product \in {"none", CheckoutLabel(user_id, product)}
    /\ events' = [events EXCEPT ![e] = [product |-> CheckoutLabel(user_id, product),
                                        n |-> events[e].n + 1]]
    /\ LET after == _handle_checkout_session_completed(sub, usage, user_id, product, failure, now)
       IN /\ sub' = after.sub
          /\ usage' = after.usage
          /\ in_window' = [c \in Conns |->
                             in_window[c] /\ after.usage.last_reset_at = usage.last_reset_at]
          /\ before' = Undisturbed(after.usage)
    /\ UNCHANGED <<now, pc, plan_type, last_pass, ret, ret_exceeded, ret_until_reset, paid_throttled, db, calls, done>>

InvoicePaid(subscription_id, found, stripe_ok, plan) ==
    /\ found => sub.exists
    /\ LET after == _handle_invoice_paid(sub, usage, subscription_id, found, stripe_ok, plan, now)
       IN /\ sub' = after.sub
          /\ usage' = after.usage
          /\ in_window' = [c \in Conns |->
                             in_window[c] /\ after.usage.last_reset_at = usage.last_reset_at]
          /\ before' = Undisturbed(after.usage)
    /\ UNCHANGED <<now, pc, plan_type, events, last_pass, ret, ret_exceeded, ret_until_reset,
                   paid_throttled, db, calls, done>>

PaymentFailed(subscription_id, found, stripe_period_end) ==
    /\ found => sub.exists
    /\ sub' = _handle_invoice_payment_failed(sub, subscription_id, found, stripe_period_end)
    /\ UNCHANGED <<now, usage, pc, plan_type, in_window, events, last_pass, ret, ret_exceeded,
                   ret_until_reset, paid_throttled, db, calls, done, before>>

\* stripe_webhook, lines 128-129: customer.subscription.updated
SubscriptionUpdated(found, plan, cancel_at, failure) ==
    /\ found => sub.exists
    /\ LET after == _handle_customer_subscription_updated(sub, usage, found, plan, cancel_at,
                                                           failure, now)
       IN /\ sub' = after.sub
          /\ usage' = after.usage
          /\ in_window' = [c \in Conns |->
                             in_window[c] /\ after.usage.last_reset_at = usage.last_reset_at]
          /\ before' = Undisturbed(after.usage)
    /\ UNCHANGED <<now, pc, plan_type, events, last_pass, ret, ret_exceeded, ret_until_reset,
                   paid_throttled, db, calls, done>>

NextBilling ==
    \/ \E e \in EventIds, ev \in CheckoutEvents :
          Checkout(e, ev.user_id, ev.product, ev.failure) /\ UNCHANGED response
    \/ \E subscription_id, found, stripe_ok \in BOOLEAN, plan \in PlanTypes :
          InvoicePaid(subscription_id, found, stripe_ok, plan) /\ UNCHANGED response
    \/ \E subscription_id, found \in BOOLEAN, stripe_period_end \in {None} \cup StripePeriodEnds :
          PaymentFailed(subscription_id, found, stripe_period_end) /\ UNCHANGED response
    \/ \E d \in TickSteps : Tick(d)

SpecBilling == Init /\ [][NextBilling]_vars

(***************************************************************************)
(* The webhook handlers and the answers of the endpoint, the handler of    *)
(* customer.subscription.updated included.                                 *)
(***************************************************************************)
\* stripe_webhook, lines 121-149: the answer after the handler of the event;
\* failure is the step of the handler that raised, "none" when none did
Answer(event_type, failure) ==
    response' = [status |-> stripe_webhook(reraised(event_type, failure)), failure |-> failure]

NextWebhook ==
    \/ \E e \in EventIds, ev \in CheckoutEvents :
          /\ Checkout(e, ev.user_id, ev.product, ev.failure)
          /\ Answer("checkout.session.completed", ev.failure)
    \/ \E subscription_id, found, stripe_ok \in BOOLEAN, plan \in PlanTypes :
          /\ InvoicePaid(subscription_id, found, stripe_ok, plan)
          /\ Answer("invoice.paid",
                    IF subscription_id /\ found /\ ~stripe_ok THEN "provider" ELSE "none")
    \/ \E subscription_id, found \in BOOLEAN, stripe_period_end \in {None} \cup StripePeriodEnds :
          /\ PaymentFailed(subscription_id, found, stripe_period_end)
          /\ Answer("invoice.payment_failed", "none")
    \/ \E found \in BOOLEAN, plan \in PlanTypes, cancel_at \in {None} \cup StripePeriodEnds,
          failure \in UpdateFailures :
          /\ SubscriptionUpdated(found, plan, cancel_at, failure)
          /\ Answer("customer.subscription.updated", IF found THEN failure ELSE "none")
    \/ \E d \in TickSteps : Tick(d)

SpecWebhook == Init /\ [][NextWebhook]_vars

(***************************************************************************)
(* The messages of one chat connection next to the purchases and the       *)
(* payment-failed events.                                                  *)
(***************************************************************************)
NextChatBilling ==
    \/ \E c \in BillingConns : Gate(c)
    \/ \E c \in BillingConns : AgentSucceed(c)
    \/ \E c \in BillingConns : AgentFail(c)
    \/ \E c \in BillingConns : Reply(c)
    \/ \E e \in EventIds : Deliver(e)
    \/ \E subscription_id, found \in BOOLEAN, stripe_period_end \in {None} \cup StripePeriodEnds :
          PaymentFailed(subscription_id, found, stripe_period_end) /\ UNCHANGED response
    \/ \E d \in TickSteps : Tick(d)

SpecChatBilling == Init /\ [][NextChatBilling]_vars

(***************************************************************************)
(* The messages of one chat connection when the storage calls of the       *)
(* access check can fail, next to the purchases.                           *)
(***************************************************************************)
\* websocket_chat, lines 182-220 and 477-484: a message is received and a
\* storage call of the access check raises
GateFail(c, at) ==
    /\ pc[c] = "idle"
    /\ at = "reset" => should_reset_daily_usage(get_user_usage(usage, now), now)
    /\ LET after == gate_failed(sub, usage, at, now)
       IN /\ sub' = after.sub
          /\ usage' = after.usage
          /\ plan_type' = IF at = "subscription" THEN plan_type
                          ELSE [plan_type EXCEPT ![c] = gate_plan(after.sub, now)]
          /\ in_window' = [d \in Conns |-> IF d = c THEN FALSE
                                          ELSE in_window[d]
                                               /\ after.usage.last_reset_at = usage.last_reset_at]
          /\ before' = [Undisturbed(after.usage) EXCEPT ![c] = NoBefore]
    /\ pc' = [pc EXCEPT ![c] = gate_failure_reply("HTTPException")]
    /\ UNCHANGED <<now, events, last_pass, ret, ret_exceeded, ret_until_reset, paid_throttled,
                   db, calls, done, response>>

NextGateFailure ==
    \/ \E c \in BillingConns : Gate(c)
    \/ \E c \in BillingConns, at \in GateFailures : GateFail(c, at)
    \/ \E c \in BillingConns : AgentSucceed(c)
    \/ \E c \in BillingConns : AgentFail(c)
    \/ \E c \in BillingConns : Reply(c)
    \/ \E e \in EventIds : Deliver(e)
    \/ \E d \in TickSteps : Tick(d)

SpecGateFailure == Init /\ [][NextGateFailure]_vars

(***************************************************************************)
(* services/database.py under concurrent callers.  A database function     *)
(* holds no lock and is a sequence of requests to the storage service: a   *)
(* select, an insert when the select found no row, and for the functions   *)
(* that change a column an update that writes the value computed from the  *)
(* row the select returned.  One action is one request; between two        *)
(* requests of one call the storage service serves the requests of the     *)
(* other clients (server processes sharing the database).  The clock       *)
(* stands still.                                                           *)
(***************************************************************************)
\* the user_id column is the unique key of both tables (data model, 3):
\* the storage service rejects the insert of a second row for the user
insert_row_no_key(rows, row) == Append(rows, row)

insert_row(rows, row) == IF rows # <<>> THEN rows ELSE <<row>>

\* the columns an update request of the function writes, on the stored row
update_row(stored, fn, current, arg, t) ==
    IF fn = "add_message_credits"
    THEN LET new == add_message_credits(current, arg)
         IN [stored EXCEPT !.message_credits = new.message_credits, !.status = new.status]
    ELSE IF fn = "deduct_message_credit"
    THEN [stored EXCEPT !.message_credits = deduct_message_credit(current).message_credits]
    ELSE LET new == extend_unlimited_until(current, arg, t)
         IN [stored EXCEPT !.unlimited_until = new.unlimited_until, !.status = new.status]

CallArgs(fn) ==
    IF fn = "add_message_credits" THEN {PackCredits}
    ELSE IF fn = "extend_unlimited_until" THEN {DAY_PASS_HOURS, WEEK_PASS_HOURS}
    ELSE {0}

Quiescent == \A k \in Clients : calls[k].step \in {"idle", "failed"}

Returned(fn, ok) ==
    [done EXCEPT !.sub_returned = @ \/ (ok /\ fn \in SubscriptionFunctions),
                 !.usage_returned = @ \/ (ok /\ fn = "get_user_usage")]

\* a client enters a database function
BeginCall(k, fn, arg) ==
    /\ calls[k].step \in {"idle", "failed"}
    /\ done.begun < MaxCalls
    /\ calls' = [calls EXCEPT ![k] = [fn |-> fn, step |-> "select", current |-> NoSub, arg |-> arg]]
    /\ done' = [done EXCEPT !.begun = @ + 1]
    /\ UNCHANGED <<now, sub, usage, pc, plan_type, in_window, events, last_pass, ret,
                   ret_exceeded, ret_until_reset, paid_throttled, db, response, before>>

\* the select of get_or_create_user_subscription (lines 1028-1038) or of
\* get_user_usage (lines 1450-1462)
Select(k) ==
    /\ calls[k].step = "select"
    /\ LET fn == calls[k].fn
           rows == IF fn = "get_user_usage" THEN db.usages ELSE db.subs
       IN IF rows = <<>>
          THEN /\ calls' = [calls EXCEPT ![k].step = "insert"]
               /\ done' = done
          ELSE IF fn \in {"get_user_usage", "get_or_create_user_subscription"}
          THEN /\ calls' = [calls EXCEPT ![k].step = "idle"]
               /\ done' = Returned(fn, TRUE)
          ELSE /\ calls' = [calls EXCEPT ![k].step = "update", ![k].current = Head(rows)]
               /\ done' = done
    /\ UNCHANGED <<now, sub, usage, pc, plan_type, in_window, events, last_pass, ret,
                   ret_exceeded, ret_until_reset, paid_throttled, db, response, before>>

\* the insert of get_or_create_user_subscription (lines 1044-1060) or of
\* create_user_usage (lines 1490-1505); a rejected insert raises
Insert(k) ==
    /\ calls[k].step = "insert"
    /\ LET fn == calls[k].fn IN
       IF fn = "get_user_usage"
       THEN LET after == insert_row(db.usages, create_user_usage(now)) IN
            /\ db' = [db EXCEPT !.usages = after]
            /\ calls' = [calls EXCEPT ![k].step = IF after = db.usages THEN "failed" ELSE "idle"]
            /\ done' = Returned(fn, after # db.usages)
       ELSE LET row == get_or_create_user_subscription(NoSub)
                after == insert_row(db.subs, row)
            IN /\ db' = [db EXCEPT !.subs = after]
               /\ IF after = db.subs
                  THEN /\ calls' = [calls EXCEPT ![k].step = "failed"]
                       /\ done' = Returned(fn, FALSE)
                  ELSE IF fn = "get_or_create_user_subscription"
                  THEN /\ calls' = [calls EXCEPT ![k].step = "idle"]
                       /\ done' = Returned(fn, TRUE)
                  ELSE /\ calls' = [calls EXCEPT ![k].step = "update", ![k].current = row]
                       /\ done' = done
    /\ UNCHANGED <<now, sub, usage, pc, plan_type, in_window, events, last_pass, ret,
                   ret_exceeded, ret_until_reset, paid_throttled, response, before>>

\* the update of add_message_credits (lines 1256-1276), of
\* deduct_message_credit (lines 1304-1332, no request when the balance
\* read is not positive) or of set_unlimited_until called by
\* extend_unlimited_until (lines 1406-1418 and 1359-1379); the update
\* writes every row of the user
Update(k) ==
    /\ calls[k].step = "update"
    /\ LET fn == calls[k].fn
           current == calls[k].current
           skipped == fn = "deduct_message_credit" /\ current.message_credits <= 0
       IN /\ db' = IF skipped THEN db
                   ELSE [db EXCEPT !.subs = [i \in 1..Len(db.subs) |->
                                               update_row(db.subs[i], fn, current, calls[k].arg, now)]]
          /\ done' = [Returned(fn, TRUE) EXCEPT
                        !.adds = IF fn = "add_message_credits" THEN @ + 1 ELSE @,
                        !.deducts = IF fn = "deduct_message_credit" /\ ~skipped THEN @ + 1 ELSE @,
                        !.pass_hours = IF fn = "extend_unlimited_until" THEN @ + calls[k].arg ELSE @]
    /\ calls' = [calls EXCEPT ![k].step = "idle"]
    /\ UNCHANGED <<now, sub, usage, pc, plan_type, in_window, events, last_pass, ret,
                   ret_exceeded, ret_until_reset, paid_throttled, response, before>>

NextDb ==
    \/ \E k \in Clients, fn \in DbFunctions : \E arg \in CallArgs(fn) : BeginCall(k, fn, arg)
    \/ \E k \in Clients : Select(k)
    \/ \E k \in Clients : Insert(k)
    \/ \E k \in Clients : Update(k)

SpecDb == Init /\ [][NextDb]_vars

(***************************************************************************)
(* The usage window tracker as a function of its inputs: any usage row     *)
(* and any time, and one call of each function for the free plan.          *)
(***************************************************************************)
InitTracker ==
    /\ now \in 0..MaxTime
    /\ usage \in {[exists |-> TRUE, message_count |-> n, last_reset_at |-> r] :
                    n \in 0..MaxCount, r \in {None} \cup 0..now}
    /\ sub = NoSub
    /\ pc = [c \in Conns |-> "idle"]
    /\ plan_type = [c \in Conns |-> "free"]
    /\ in_window = [c \in Conns |-> FALSE]
    /\ events = [e \in EventIds |-> NoEvent]
    /\ last_pass = NoPass
    /\ ret = NoRet
    /\ ret_exceeded = {}
    /\ ret_until_reset = NoRet
    /\ paid_throttled = FALSE
    /\ db = NoRows
    /\ calls = [k \in Clients |-> NoCall]
    /\ done = NoneDone
    /\ response = NoResponse
    /\ before = [c \in Conns |-> NoBefore]

CallRemaining ==
    /\ ret = NoRet
    /\ ret' = get_remaining_messages(usage, "free", now)
    /\ UNCHANGED <<now, sub, usage, pc, plan_type, in_window, events, last_pass,
                   ret_exceeded, ret_until_reset, paid_throttled, db, calls, done, response, before>>

CallLimitExceeded ==
    /\ ret_exceeded = {}
    /\ ret_exceeded' = {is_message_limit_exceeded(usage, "free", now)}
    /\ UNCHANGED <<now, sub, usage, pc, plan_type, in_window, events, last_pass,
                   ret, ret_until_reset, paid_throttled, db, calls, done, response, before>>

CallUntilReset ==
    /\ ret_until_reset = NoRet
    /\ ret_until_reset' = get_messages_until_reset(usage, now)
    /\ UNCHANGED <<now, sub, usage, pc, plan_type, in_window, events, last_pass,
                   ret, ret_exceeded, paid_throttled, db, calls, done, response, before>>

NextTracker ==
    \/ CallRemaining
    \/ CallLimitExceeded
    \/ CallUntilReset

SpecTracker == InitTracker /\ [][NextTracker]_vars

(***************************************************************************)
(* Steps of the processes, as seen from two successive states.             *)
(***************************************************************************)
GateStep(c) == pc[c] = "idle" /\ pc'[c] # "idle"
SuccessStep(c) == pc[c] = "running" /\ pc'[c] = "stream_end"
DeliveryStep(e) == events'[e].n = events[e].n + 1
ActivePass(s, t) == s.unlimited_until # None /\ s.unlimited_until > t

\* the free-tier count that is in force: a count of an elapsed window is zero
EffectiveCount(u, t) ==
    IF _should_reset_usage(u.last_reset_at, t) THEN 0 ELSE u.message_count

(***************************************************************************)
(* Claims                                                                  *)
(***************************************************************************)

\* C1: the message_credits balance is never negative, whatever the
\* sequence of credit-pack grants and post-message deductions, a deduction
\* at balance 0 included.
C1_NoNegativeCredits == sub.message_credits >= 0

\* C1 witness: a message gated under plan credits has been charged and the
\* balance is 0.
C1_Witness ==
    \E c \in Conns :
        pc[c] = "stream_end" /\ plan_type[c] = "credits" /\ sub.message_credits = 0

\* C2: a second or later delivery of the same credit-pack event leaves
\* message_credits as the first delivery left it.
C2_ReplayGrantsOnce ==
    [][\A e \in EventIds :
         (DeliveryStep(e) /\ events[e].n >= 1 /\ events[e].product = "credit_pack")
            => sub'.message_credits = sub.message_credits]_vars

C4_FreeLimitUnderConcurrency ==
    Cardinality({c \in Conns :
        pc[c] = "running" /\ plan_type[c] = "free" /\ in_window[c]}) <= FREE_MESSAGE_LIMIT

C6_CreditsPayOneEach ==
    [][\A c \in Conns :
         (SuccessStep(c) /\ plan_type[c] = "credits") =>
            /\ sub'.message_credits = sub.message_credits - 1
            /\ (sub'.message_credits = 0 /\ ~ActivePass(sub', now)) =>
                  /\ get_effective_plan(sub', now) = "free"
                  /\ can_send_message(sub', usage', now)
                        <=> (get_remaining_messages(usage', "free", now) > 0)]_vars

\* C7: the access check on the freshly read rows comes before the agent
\* run of the message: the agent starts only in the step that made the
\* check, only when the check allowed it, and a refused message gets the
\* purchase_required reply instead.
C7_GateBeforeAgent ==
    [][\A c \in Conns :
         /\ (pc'[c] = "running" /\ pc[c] # "running") => GateStep(c)
         /\ GateStep(c) =>
              /\ pc'[c] = "running" => can_send_message(sub', usage', now)
              /\ ~can_send_message(sub', usage', now) => pc'[c] = "err_purchase_required"]_vars

\* C7 witness: one message is refused at the gate while another one, which
\* passed it, is with the agent.
C7_Witness ==
    \E c, d \in Conns : pc[c] = "err_purchase_required" /\ pc[d] = "running"

\* C8: usage is charged only in the step after a successful agent run, and
\* exactly once per successful message (one credit under plan credits, one
\* count under plan free); a message whose run fails or which is too large
\* leaves message_credits and the count in force unchanged.
C8_ChargeOncePerSuccess ==
    [][\A c \in Conns :
         /\ (pc'[c] # pc[c] /\ ~SuccessStep(c)) =>
              /\ sub'.message_credits >= sub.message_credits
              /\ usage'.message_count <= usage.message_count
         /\ (SuccessStep(c) /\ plan_type[c] = "credits") =>
              /\ sub'.message_credits = sub.message_credits - 1
              /\ usage' = usage
         /\ (SuccessStep(c) /\ plan_type[c] = "free") =>
              /\ usage'.message_count = usage.message_count + 1
              /\ sub' = sub
         /\ pc'[c] \in {"err_failed", "err_request_too_large"} /\ pc'[c] # pc[c] =>
              /\ sub'.message_credits = sub.message_credits
              /\ EffectiveCount(usage', now) = EffectiveCount(usage, now)]_vars

\* C9: a free-tier user has 1 message per 48-hour window: once a free
\* message is counted in the window that started at last_reset_at = T, the
\* gate refuses at every time before T + 48h and admits from T + 48h on.
C9_FreeWindow48h ==
    LET plan == get_effective_plan(sub, now)
        u == IF should_reset_daily_usage(usage, now) THEN reset_user_usage(usage, now) ELSE usage
    IN (sub.exists /\ usage.exists /\ plan = "free"
        /\ usage.message_count >= FREE_MESSAGE_LIMIT)
          => (can_send_message(sub, u, now)
                <=> now - usage.last_reset_at >= ADVERTISED_WINDOW_HOURS)

\* C10: for a usage row whose last_reset_at is unset or at least one full
\* window old, the remaining free messages are the full limit whatever the
\* stored message_count.
C10_ExpiredWindowFullLimit ==
    (ret # NoRet /\ (usage.last_reset_at = None \/ now - usage.last_reset_at >= WINDOW_HOURS))
        => ret = FREE_MESSAGE_LIMIT

\* C10 witness: the call was made on a row exactly one window old with a
\* stale count at the limit.
C10_Witness ==
    /\ ret # NoRet
    /\ usage.last_reset_at # None /\ now - usage.last_reset_at = WINDOW_HOURS
    /\ usage.message_count >= FREE_MESSAGE_LIMIT

\* C11: on the free plan, with the window not expired and message_count at
\* or over the limit, the limit counts as exceeded (can_send is false) and
\* the time until reset is strictly positive; and whenever the time until
\* reset is zero the window is expired and the limit does not count as
\* exceeded (can_send is true).
C11_ThrottledHasPositiveWait ==
    LET expired == usage.last_reset_at = None \/ now - usage.last_reset_at >= WINDOW_HOURS
    IN (ret_exceeded # {} /\ ret_until_reset # NoRet) =>
          /\ (~expired /\ usage.message_count >= FREE_MESSAGE_LIMIT)
                => (ret_exceeded = {TRUE} /\ ret_until_reset > 0)
          /\ ret_until_reset = 0 => (expired /\ ret_exceeded = {FALSE})

\* C11 witness: both calls were made on a row at the limit one hour before
\* the end of its window.
C11_Witness ==
    /\ ret_exceeded = {TRUE} /\ ret_until_reset = 1
    /\ usage.message_count = FREE_MESSAGE_LIMIT
    /\ usage.last_reset_at # None /\ now - usage.last_reset_at = WINDOW_HOURS - 1

\* C12: after a credit-pack or pass purchase was applied for a free-tier
\* user who was refused at that moment, the user's next access check
\* allows the message, whatever happened in between.
C12_PaidUserCanSend == paid_throttled => can_send_message(sub, usage, now)

\* C12 witness: a credit pack was applied for a refused user, and a free
\* message that was with the agent at that moment has been counted since.
C12_Witness ==
    /\ paid_throttled /\ sub.status = "credits"
    /\ usage.message_count >= FREE_MESSAGE_LIMIT
    /\ ~_should_reset_usage(usage.last_reset_at, now)

\* C13: after a purchase event was applied (credits granted, or an
\* unlimited window set) the usage row has message_count = 0 and
\* last_reset_at equal to the time of the event.
C13_PurchaseResetsUsage ==
    [][\A e \in EventIds : DeliveryStep(e) =>
         usage' = [exists |-> TRUE, message_count |-> 0, last_reset_at |-> now]]_vars

\* C13 witness: a purchase was applied, later than the start of the usage
\* window in which a free message at the agent was admitted.
C13_Witness ==
    /\ Delivered > 0 /\ now > 0
    /\ usage.exists /\ usage.message_count = 0 /\ usage.last_reset_at = now
    /\ \E c \in Conns : pc[c] = "running" /\ plan_type[c] = "free" /\ ~in_window[c]

\* C14: a checkout event without the user identifier, without a product
\* identifier, or with an identifier that is no product is discarded: the
\* subscription row and the usage row are as before, none is created.
C14_MalformedDiscarded ==
    [][\A e \in EventIds :
         (DeliveryStep(e) /\ events'[e].product \in {"no_user", "missing", "unknown"})
            => (sub' = sub /\ usage' = usage)]_vars

\* C14 witness: a malformed event was handled for a user who has neither
\* row.
C14_Witness ==
    /\ \E e \in EventIds : events[e].product \in {"no_user", "missing", "unknown"}
    /\ ~sub.exists /\ ~usage.exists

\* C15 as stated: a payment-failed event for the user's subscription sets
\* is_active to false and leaves message_credits, unlimited_until and
\* current_period_end exactly as they were.
C15_PaymentFailedFrame ==
    [][\A stripe_period_end \in {None} \cup StripePeriodEnds :
         PaymentFailed(TRUE, TRUE, stripe_period_end) =>
            /\ sub'.is_active = FALSE
            /\ sub'.message_credits = sub.message_credits
            /\ sub'.unlimited_until = sub.unlimited_until
            /\ sub'.current_period_end = sub.current_period_end]_vars

\* C15 amended: a payment-failed event for the user's subscription sets
\* is_active to false, leaves message_credits and unlimited_until exactly
\* as they were, and leaves a current_period_end that is set as it was; one
\* that is unset stays unset or becomes the period end the payment
\* provider reports.
C15_PaymentFailedKeepsGrants ==
    [][\A stripe_period_end \in {None} \cup StripePeriodEnds :
         PaymentFailed(TRUE, TRUE, stripe_period_end) =>
            /\ sub'.is_active = FALSE
            /\ sub'.message_credits = sub.message_credits
            /\ sub'.unlimited_until = sub.unlimited_until
            /\ sub'.current_period_end =
                  (IF sub.current_period_end # None THEN sub.current_period_end
                   ELSE stripe_period_end)]_vars

\* C15 witness: a payment failed for a user who holds credits and an
\* active pass.
C15_Witness ==
    /\ sub.exists /\ ~sub.is_active
    /\ sub.message_credits > 0 /\ ActivePass(sub, now)

\* C16: when a step of a handler fails (the write of the subscription or
\* the reset of the usage while a checkout is handled, the payment
\* provider's lookup while a paid invoice is handled) the subscription row
\* is as before the event; in particular a paid invoice whose plan could
\* not be resolved does not make an inactive subscription active.
C16_FailureLeavesSubscription ==
    [][/\ \A e \in EventIds, product \in Products, failure \in Failures \ {"none"} :
            Checkout(e, TRUE, product, failure) => sub' = sub
       /\ \A plan \in PlanTypes :
            InvoicePaid(TRUE, TRUE, FALSE, plan) =>
               (sub' = sub /\ (sub'.is_active => sub.is_active))]_vars

\* C17: once the effective plan is lifetime it stays lifetime and can_send
\* stays true, at every time before the sentinel date, whatever messages,
\* credit packs, passes and payment-failed events follow.
C17_LifetimeStays ==
    [][(get_effective_plan(sub, now) = "lifetime" /\ now' < LIFETIME_EXPIRY) =>
         /\ get_effective_plan(sub', now') = "lifetime"
         /\ can_send_message(sub', usage', now')]_vars

\* C17 witness: a lifetime user with credits bought later and a failed
\* payment has had a message answered.
C17_Witness ==
    /\ get_effective_plan(sub, now) = "lifetime"
    /\ sub.status = "credits" /\ ~sub.is_active
    /\ \E c \in BillingConns : pc[c] = "stream_end"

\* C18: a lifetime purchase sets unlimited_until to the sentinel whatever
\* it was before (unset, past, or the end of an active pass), and applied
\* to a row that a lifetime purchase left at the sentinel it leaves
\* unlimited_until, message_credits and the effective plan unchanged.
C18_LifetimeGrantIdempotent ==
    [][\A e \in EventIds :
         (DeliveryStep(e) /\ events'[e].product = "lifetime") =>
            /\ sub'.unlimited_until = LIFETIME_EXPIRY
            /\ sub.unlimited_until = LIFETIME_EXPIRY =>
                  /\ sub'.unlimited_until = sub.unlimited_until
                  /\ sub'.message_credits = sub.message_credits
                  /\ get_effective_plan(sub', now) = get_effective_plan(sub, now)]_vars

\* C18 witness: the same lifetime purchase was applied twice.
C18_Witness ==
    \E e \in EventIds :
        events[e].product = "lifetime" /\ events[e].n = 2 /\ sub.unlimited_until = LIFETIME_EXPIRY

\* C19: a credit pack of N credits sets message_credits to the balance
\* before + N and leaves unlimited_until unchanged, with or without an
\* active pass.
C19_CreditPackAdds ==
    [][\A e \in EventIds :
         (DeliveryStep(e) /\ events'[e].product = "credit_pack") =>
            /\ sub'.message_credits = sub.message_credits + CREDIT_AMOUNTS["credit_pack"]
            /\ sub'.unlimited_until = sub.unlimited_until]_vars

\* C19 witness: a credit pack was applied while a lifetime pass was held.
C19_Witness ==
    /\ sub.status = "credits" /\ sub.message_credits = PackCredits
    /\ sub.unlimited_until = LIFETIME_EXPIRY

\* C20: every message resolves its plan from the subscription row as
\* stored at that moment: when unlimited_until is set and not after now the
\* plan of the message is credits if message_credits > 0 and free
\* otherwise.
C20_PlanResolvedEachMessage ==
    [][\A c \in Conns : GateStep(c) =>
         /\ plan_type'[c] = get_effective_plan(sub', now)
         /\ (sub'.unlimited_until # None /\ sub'.unlimited_until <= now) =>
               plan_type'[c] = (IF sub'.message_credits > 0 THEN "credits" ELSE "free")]_vars

\* C20 witness: a message sent at the instant a day pass ran out was
\* resolved to credits.
C20_Witness ==
    \E c \in Conns :
        /\ pc[c] = "running" /\ plan_type[c] = "credits"
        /\ sub.unlimited_until # None /\ sub.unlimited_until = now

C22_NoLostCreditUpdate ==
    (Quiescent /\ db.subs # <<>>) =>
        Head(db.subs).message_credits = PackCredits * done.adds - done.deducts

\* C30: when the calls of extend_unlimited_until have all returned,
\* unlimited_until accounts for the duration of every one of them, as when
\* they are applied one after the other.
C30_ConcurrentPassesStack ==
    (Quiescent /\ db.subs # <<>> /\ done.pass_hours > 0) =>
        Head(db.subs).unlimited_until = now + done.pass_hours

\* C23: when a storage call or a payment-provider call fails inside a
\* billing-event handler, the webhook caller gets a failure answer: no
\* event whose handler had a failing step is acknowledged as received.
C23_FailureNotAcknowledged ==
    response.failure # "none" => response.status # 200

\* C24: the charge after a successful message is the charge of the plan in
\* force when the charge is made, not of the plan the access check
\* resolved.
C24_ChargeByPlanAtChargeTime ==
    [][\A c \in Conns : SuccessStep(c) =>
          /\ sub' = charge_subscription(get_effective_plan(sub, now), sub)
          /\ usage' = charge_usage(get_effective_plan(sub, now), usage, now)]_vars

\* C28: when the charge of a message takes the last credit and no pass is
\* active, the stored status is free afterwards, so that it equals the
\* effective plan.
C28_StatusFreeAfterLastCredit ==
    [][\A c \in Conns :
          (SuccessStep(c) /\ sub.message_credits = 1 /\ sub'.message_credits = 0
             /\ ~ActivePass(sub', now))
          => (sub'.status = "free" /\ sub'.status = get_effective_plan(sub', now))]_vars

C26_PassMessageFrame ==
    [][\A c \in Conns :
          ((GateStep(c) \/ SuccessStep(c)) /\ plan_type'[c] \in {"unlimited", "lifetime"}) =>
             /\ sub'.message_credits = sub.message_credits
             /\ usage'.message_count = get_user_usage(usage, now).message_count
             /\ usage'.last_reset_at = get_user_usage(usage, now).last_reset_at]_vars

\* C26 amended: a message under the unlimited or the lifetime plan is not
\* charged: its charge leaves both rows as they are, and its access check
\* leaves message_credits as it is and the usage row as it is unless the
\* window has expired; an expired window is restarted by the access check
\* (message_count 0, last_reset_at the time of the check) under these
\* plans as under the free plan.
C26_PassMessageNotCharged ==
    [][\A c \in Conns :
          /\ (SuccessStep(c) /\ plan_type[c] \in {"unlimited", "lifetime"}) =>
                (sub' = sub /\ usage' = usage)
          /\ (GateStep(c) /\ plan_type'[c] \in {"unlimited", "lifetime"}) =>
                /\ sub'.message_credits = sub.message_credits
                /\ IF should_reset_daily_usage(get_user_usage(usage, now), now)
                   THEN usage'.message_count = 0 /\ usage'.last_reset_at = now
                   ELSE usage' = get_user_usage(usage, now)]_vars

\* C26 witness: a message under a pass has been answered after its access
\* check restarted the usage window.
C26_Witness ==
    \E c \in Conns : /\ pc[c] = "stream_end" /\ plan_type[c] \in {"unlimited", "lifetime"}
                      /\ usage.exists /\ usage.last_reset_at > 0 /\ usage.message_count = 0

\* C27: a refused message leaves the subscription row and the usage row
\* exactly as they were (so the reset time is not pushed later), is not
\* handed to the agent, and after the purchase_required reply the
\* connection waits for the next message.
C27_RefusalChangesNothing ==
    [][\A c \in Conns :
          /\ (GateStep(c) /\ pc'[c] = "err_purchase_required") =>
                (sub' = sub /\ usage' = usage /\ ~can_send_message(sub, usage, now))
          /\ (GateStep(c) /\ ~can_send_message(sub', usage', now)) =>
                pc'[c] = "err_purchase_required"
          /\ (pc[c] = "err_purchase_required" /\ pc'[c] # pc[c]) => pc'[c] = "idle"]_vars

\* C27 witness: a message was refused, and the connection is back waiting
\* for the next message while the user is still throttled.
C27_Witness ==
    /\ \E c \in Conns : pc[c] = "err_purchase_required"
    /\ \E c \in Conns : pc[c] = "idle"
    /\ ~can_send_message(sub, usage, now)

\* C29: when a storage call of the access check fails, the reply is an
\* error other than purchase_required, the message is not handed to the
\* agent, no credit is taken and no message is counted, and after the
\* reply the connection waits for the next message.
C29_GateFailureIsTransient ==
    [][\A c \in BillingConns :
          /\ \A at \in GateFailures : GateFail(c, at) =>
                /\ pc'[c] \in Replies \ {"err_purchase_required", "stream_end"}
                /\ sub'.message_credits = sub.message_credits
                /\ usage'.message_count = usage.message_count
          /\ (pc[c] \in {"err_unexpected", "err_subscription_check_failed"} /\ pc'[c] # pc[c])
                => (pc'[c] = "idle" /\ sub' = sub /\ usage' = usage)]_vars

\* C29 witness: the read of the usage row failed for a user who holds
\* credits; the reply is pending and the credits are still there.
C29_Witness ==
    \E c \in BillingConns : /\ pc[c] = "err_unexpected"
                             /\ sub.message_credits > 0

====
